---------------------------- MODULE Spec2Model ----------------------------
(***************************************************************************)
(* DMARC validator: the record parser and the GET handler of               *)
(* routes/api/dmarc.ts, and the signals of islands/DmarcValidator.tsx.     *)
(*                                                                         *)
(* A JavaScript string is a sequence of one-character strings.  A fixed    *)
(* phrase of the source that is only ever emitted (never split, trimmed or *)
(* searched) is written as one element holding the whole phrase; it stands *)
(* for its characters and can never equal an input character.             *)
(***************************************************************************)
EXTENDS Integers, Sequences, FiniteSets, TLC

VARIABLES
    \* --- the JavaScript runtime ---
    unsafeProto,      \* TRUE iff Object.prototype carries the __proto__ accessor
    \* --- parseDmarcRecord applied to one input (SpecParse, SpecRi) ---
    record,           \* the argument of parseDmarcRecord
    parsed,           \* the call's outcome once it has returned or thrown
    ppc,              \* "call" before the call, "returned" after it
    riN,              \* SpecRi: the integer whose decimal form is the ri value (else -1)
    \* --- one GET request of routes/api/dmarc.ts (Spec) ---
    pc,               \* "idle" | "received" | "awaitDns" | "done"
    domain,           \* url.searchParams.get("domain")
    cleanDomain,      \* line 100
    dmarcDomain,      \* line 101
    dnsLog,           \* the names Deno.resolveDns was called with, in order
    dnsOutcome,       \* what the awaited resolveDns call produced
    queryTime,        \* line 109
    response,         \* the Response the handler returned
    \* --- the DmarcValidator island (SpecUI) ---
    uiDomain,         \* signal domain
    isLoading,        \* signal isLoading
    result,           \* signal result
    error,            \* signal error
    initialLoadDone,  \* signal initialLoadDone
    mounted,          \* the mount effect (lines 77-95) has run
    locHash,          \* window.location.hash
    inflight          \* handleLookup calls suspended at an await

rtVars    == <<unsafeProto>>
parseVars == <<record, parsed, ppc, riN>>
reqVars   == <<pc, domain, cleanDomain, dmarcDomain, dnsLog, dnsOutcome, queryTime, response>>
uiVars    == <<uiDomain, isLoading, result, error, initialLoadDone, mounted, locHash, inflight>>
vars      == <<rtVars, parseVars, reqVars, uiVars>>

----------------------------------------------------------------------------
(* Bounds of the model.                                                    *)

MaxParseFrags  == 4     \* fragments concatenated into a parser input
MaxRi          == 7300  \* SpecRi tries every ri value up to this one
MaxDomainFrags == 3     \* fragments concatenated into a domain parameter
MaxRecords     == 2     \* TXT records in one DNS answer
MaxQueryTime   == 1     \* largest elapsed time, in ms, the clock reports
MaxInFlight    == 2     \* handleLookup calls suspended at the same time

----------------------------------------------------------------------------
(* String primitives of ECMAScript, on sequences of characters.            *)

RECURSIVE Concats(_, _)
\* Every concatenation of at most k members of F.
Concats(F, k) ==
    IF k = 0 THEN {<<>>}
    ELSE LET prev == Concats(F, k - 1)
         IN  prev \cup {p \o f : p \in prev, f \in F}

\* WhiteSpace and LineTerminator code points String.prototype.trim strips.
WhiteSpace == {" ", "\t", "\n", "\r"}

\* LineTerminator code points, which "." of a RegExp without the s flag
\* does not match.
LineTerminator == {"\n", "\r"}

UpperCase == <<"A", "B", "C", "D", "E", "F", "G", "H", "I", "J", "K", "L", "M",
               "N", "O", "P", "Q", "R", "S", "T", "U", "V", "W", "X", "Y", "Z">>
LowerCase == <<"a", "b", "c", "d", "e", "f", "g", "h", "i", "j", "k", "l", "m",
               "n", "o", "p", "q", "r", "s", "t", "u", "v", "w", "x", "y", "z">>

LowerChar(c) ==
    IF \E i \in 1..26 : UpperCase[i] = c
    THEN LowerCase[CHOOSE i \in 1..26 : UpperCase[i] = c]
    ELSE c

\* String.prototype.toLowerCase
ToLowerCase(s) == [i \in 1..Len(s) |-> LowerChar(s[i])]

RECURSIVE TrimStart(_)
TrimStart(s) ==
    IF s # <<>> /\ Head(s) \in WhiteSpace THEN TrimStart(Tail(s)) ELSE s

RECURSIVE TrimEnd(_)
TrimEnd(s) ==
    IF s # <<>> /\ s[Len(s)] \in WhiteSpace
    THEN TrimEnd(SubSeq(s, 1, Len(s) - 1))
    ELSE s

\* String.prototype.trim
Trim(s) == TrimEnd(TrimStart(s))

RECURSIVE SplitFrom(_, _, _)
\* The pieces of s between occurrences of sep, cur being the piece in progress.
SplitFrom(s, sep, cur) ==
    IF s = <<>> THEN <<cur>>
    ELSE IF Head(s) = sep THEN <<cur>> \o SplitFrom(Tail(s), sep, <<>>)
    ELSE SplitFrom(Tail(s), sep, Append(cur, Head(s)))

\* String.prototype.split with a one-character separator: "" gives [""].
Split(s, sep) == SplitFrom(s, sep, <<>>)

RECURSIVE Join(_, _)
\* Array.prototype.join
Join(parts, sep) ==
    IF parts = <<>> THEN <<>>
    ELSE IF Len(parts) = 1 THEN parts[1]
    ELSE parts[1] \o sep \o Join(Tail(parts), sep)

\* String.prototype.startsWith
StartsWith(s, prefix) ==
    /\ Len(s) >= Len(prefix)
    /\ SubSeq(s, 1, Len(prefix)) = prefix

\* String.prototype.includes
Includes(s, sub) ==
    \E i \in 0..(Len(s) - Len(sub)) : SubSeq(s, i + 1, i + Len(sub)) = sub

RECURSIVE FilterNonEmpty(_)
\* Array.prototype.filter(Boolean) on strings: the empty string is falsy.
FilterNonEmpty(parts) ==
    IF parts = <<>> THEN <<>>
    ELSE IF Head(parts) = <<>> THEN FilterNonEmpty(Tail(parts))
    ELSE <<Head(parts)>> \o FilterNonEmpty(Tail(parts))

----------------------------------------------------------------------------
(* Numbers: parseInt, Math.round of a quotient, and Number to String.      *)

DecimalDigits == <<"0", "1", "2", "3", "4", "5", "6", "7", "8", "9">>
HexDigitsLow  == DecimalDigits \o <<"a", "b", "c", "d", "e", "f">>

\* The value of character c as a digit of the radix, or -1.
DigitValue(c, radix) ==
    LET lc == LowerChar(c)
    IN  IF \E i \in 1..radix : HexDigitsLow[i] = lc
        THEN (CHOOSE i \in 1..radix : HexDigitsLow[i] = lc) - 1
        ELSE -1

RECURSIVE DigitPrefix(_, _, _, _)
\* The longest prefix of s made of digits of the radix, read as a number:
\* acc is the value so far and any says whether a digit was read.
DigitPrefix(s, radix, acc, any) ==
    IF s = <<>> \/ DigitValue(Head(s), radix) < 0
    THEN [nan |-> ~any, n |-> acc]
    ELSE DigitPrefix(Tail(s), radix, acc * radix + DigitValue(Head(s), radix), TRUE)

\* parseInt(string) with no radix: leading white space skipped, an optional
\* sign, a 0x or 0X prefix selecting radix 16, then the longest digit prefix;
\* NaN when no digit follows.
ParseInt(string) ==
    LET t    == TrimStart(string)
        sgn  == IF t # <<>> /\ Head(t) = "-" THEN -1 ELSE 1
        u    == IF t # <<>> /\ Head(t) \in {"-", "+"} THEN Tail(t) ELSE t
        hex  == Len(u) >= 2 /\ u[1] = "0" /\ u[2] \in {"x", "X"}
        body == IF hex THEN SubSeq(u, 3, Len(u)) ELSE u
        r    == DigitPrefix(body, IF hex THEN 16 ELSE 10, 0, FALSE)
    IN  [nan |-> r.nan, n |-> sgn * r.n]

\* Math.round(num / den) for den > 0: the nearest integer, a half going up.
MathRoundQuotient(num, den) == (2 * num + den) \div (2 * den)

RECURSIVE NatToString(_)
NatToString(n) ==
    IF n < 10 THEN <<DecimalDigits[n + 1]>>
    ELSE NatToString(n \div 10) \o <<DecimalDigits[(n % 10) + 1]>>

\* Number.prototype.toString of an integer below 10^21 (-0 prints as "0").
NumberToString(n) == IF n < 0 THEN <<"-">> \o NatToString(-n) ELSE NatToString(n)

----------------------------------------------------------------------------
(* Property lookup on an object literal.  policies[value], options[value]  *)
(* and tagDescriptions[tagName] read the own properties first and then     *)
(* Object.prototype.  ECMAScript gives Object.prototype the accessor       *)
(* __proto__; Deno deletes it at startup unless it is started with         *)
(* --unstable-unsafe-proto.  The source does not fix the runtime's         *)
(* configuration, so both outcomes are kept: unsafeProto is chosen in the  *)
(* initial state and never changes.                                        *)

K_constructor == <<"c", "o", "n", "s", "t", "r", "u", "c", "t", "o", "r">>
K_proto       == <<"_", "_", "p", "r", "o", "t", "o", "_", "_">>

\* The function-valued properties of Object.prototype.
ObjectPrototypeFunctions ==
    { K_constructor,
      <<"t", "o", "S", "t", "r", "i", "n", "g">>,
      <<"v", "a", "l", "u", "e", "O", "f">>,
      <<"h", "a", "s", "O", "w", "n", "P", "r", "o", "p", "e", "r", "t", "y">>,
      <<"i", "s", "P", "r", "o", "t", "o", "t", "y", "p", "e", "O", "f">>,
      <<"p", "r", "o", "p", "e", "r", "t", "y", "I", "s", "E", "n", "u", "m", "e", "r", "a", "b", "l", "e">>,
      <<"t", "o", "L", "o", "c", "a", "l", "e", "S", "t", "r", "i", "n", "g">>,
      <<"_", "_", "d", "e", "f", "i", "n", "e", "G", "e", "t", "t", "e", "r", "_", "_">>,
      <<"_", "_", "d", "e", "f", "i", "n", "e", "S", "e", "t", "t", "e", "r", "_", "_">>,
      <<"_", "_", "l", "o", "o", "k", "u", "p", "G", "e", "t", "t", "e", "r", "_", "_">>,
      <<"_", "_", "l", "o", "o", "k", "u", "p", "S", "e", "t", "t", "e", "r", "_", "_">> }

\* What obj[key] evaluates to, own being the object literal's own entries
\* (a function from keys to strings): kind "string" with the entry,
\* "function" for a method inherited from Object.prototype, "object" for
\* Object.prototype itself (key __proto__, where the runtime keeps that
\* accessor), "undefined" otherwise.
GetProperty(own, key) ==
    IF key \in DOMAIN own THEN [kind |-> "string", text |-> own[key]]
    ELSE IF key \in ObjectPrototypeFunctions THEN [kind |-> "function", text |-> key]
    ELSE IF key = K_proto /\ unsafeProto THEN [kind |-> "object", text |-> key]
    ELSE [kind |-> "undefined", text |-> <<>>]

\* String(x) of a looked-up property that is not a string.
NativeToString(prop) ==
    IF prop.kind = "function"
    THEN <<"function ">> \o prop.text \o <<"() { [native code] }">>
    ELSE <<"[object Object]">>

\* The value a description holds when the interpreter returned something
\* that is not a primitive string.
NonString(what, text) == <<"<", what, " ">> \o text \o <<">">>

----------------------------------------------------------------------------
(* tagDescriptions (lines 9-49).                                           *)

K_none       == <<"n", "o", "n", "e">>
K_quarantine == <<"q", "u", "a", "r", "a", "n", "t", "i", "n", "e">>
K_reject     == <<"r", "e", "j", "e", "c", "t">>

\* policies of tagDescriptions.p
PPolicies ==
    (K_none :> <<"No action taken on failing emails (monitoring only)">>) @@
    (K_quarantine :> <<"Failing emails should be treated as suspicious (e.g., moved to spam)">>) @@
    (K_reject :> <<"Failing emails should be rejected outright">>)

\* policies of tagDescriptions.sp
SpPolicies ==
    (K_none :> <<"No action for subdomains">>) @@
    (K_quarantine :> <<"Quarantine failing emails from subdomains">>) @@
    (K_reject :> <<"Reject failing emails from subdomains">>)

\* options of tagDescriptions.fo
FoOptions ==
    (<<"0">> :> <<"Generate failure report if all mechanisms fail">>) @@
    (<<"1">> :> <<"Generate failure report if any mechanism fails">>) @@
    (<<"d">> :> <<"Generate failure report on DKIM failure">>) @@
    (<<"s">> :> <<"Generate failure report on SPF failure">>)

Describe_v(value) == <<"DMARC version: ">> \o value

\* policies[value] || `Policy: ${value}`: an inherited property is truthy
\* and is returned as it is.
Describe_p(value) ==
    LET prop == GetProperty(PPolicies, value)
    IN  CASE prop.kind = "string"    -> prop.text
          [] prop.kind = "undefined" -> <<"Policy: ">> \o value
          [] OTHER                   -> NonString(prop.kind, prop.text)

Describe_sp(value) ==
    LET prop == GetProperty(SpPolicies, value)
    IN  <<"Subdomain policy: ">> \o
        (CASE prop.kind = "string"    -> prop.text
           [] prop.kind = "undefined" -> value
           [] OTHER                   -> NativeToString(prop))

Describe_rua(value) == <<"Aggregate reports sent to: ">> \o value

Describe_ruf(value) == <<"Forensic reports sent to: ">> \o value

Describe_pct(value) == <<"Policy applies to ">> \o value \o <<"% of failing emails">>

Describe_adkim(value) ==
    IF value = <<"s">>
    THEN <<"DKIM alignment: Strict (exact domain match required)">>
    ELSE <<"DKIM alignment: Relaxed (organizational domain match allowed)">>

Describe_aspf(value) ==
    IF value = <<"s">>
    THEN <<"SPF alignment: Strict (exact domain match required)">>
    ELSE <<"SPF alignment: Relaxed (organizational domain match allowed)">>

Describe_fo(value) ==
    LET prop == GetProperty(FoOptions, value)
    IN  <<"Failure reporting: ">> \o
        (CASE prop.kind = "string"    -> prop.text
           [] prop.kind = "undefined" -> value
           [] OTHER                   -> NativeToString(prop))

Describe_rf(value) == <<"Report format: ">> \o value

\* The hour count of tagDescriptions.ri, as floor: the slip of Math.floor
\* for Math.round.
HoursFloor(value) ==
    LET n == ParseInt(value)
    IN  IF n.nan THEN <<"NaN">> ELSE NumberToString(n.n \div 3600)

\* Math.round(parseInt(value) / 3600) inside the template literal.
Hours(value) ==
    LET n == ParseInt(value)
    IN  IF n.nan THEN <<"NaN">> ELSE NumberToString(MathRoundQuotient(n.n, 3600))

Describe_ri(value) ==
    <<"Report interval: ">> \o value \o <<" seconds (">> \o Hours(value) \o <<" hours)">>

\* The own keys of tagDescriptions.
KnownTags ==
    { <<"v">>, <<"p">>, <<"s", "p">>, <<"r", "u", "a">>, <<"r", "u", "f">>,
      <<"p", "c", "t">>, <<"a", "d", "k", "i", "m">>, <<"a", "s", "p", "f">>,
      <<"f", "o">>, <<"r", "f">>, <<"r", "i">> }

\* tagDescriptions[tagName](value) for an own key.
Interpret(tagName, value) ==
    CASE tagName = <<"v">>                     -> Describe_v(value)
      [] tagName = <<"p">>                     -> Describe_p(value)
      [] tagName = <<"s", "p">>                -> Describe_sp(value)
      [] tagName = <<"r", "u", "a">>           -> Describe_rua(value)
      [] tagName = <<"r", "u", "f">>           -> Describe_ruf(value)
      [] tagName = <<"p", "c", "t">>           -> Describe_pct(value)
      [] tagName = <<"a", "d", "k", "i", "m">> -> Describe_adkim(value)
      [] tagName = <<"a", "s", "p", "f">>      -> Describe_aspf(value)
      [] tagName = <<"f", "o">>                -> Describe_fo(value)
      [] tagName = <<"r", "f">>                -> Describe_rf(value)
      [] tagName = <<"r", "i">>                -> Describe_ri(value)

\* What tagDescriptions[tagName] is (line 60): "own" for one of the eleven
\* interpreters, "Object" for the inherited constructor, "prototype" for
\* Object.prototype (key __proto__ on a runtime that keeps the accessor),
\* "undefined" otherwise.
DescriptionFn(tagName) ==
    IF tagName \in KnownTags THEN "own"
    ELSE IF tagName = K_constructor THEN "Object"
    ELSE IF tagName = K_proto /\ unsafeProto THEN "prototype"
    ELSE "undefined"

----------------------------------------------------------------------------
(* parseDmarcRecord (lines 51-73).                                         *)

\* The TypeError of calling Object.prototype as a function (line 62).
NotAFunction ==
    <<"d", "e", "s", "c", "r", "i", "p", "t", "i", "o", "n", "F", "n", " ",
      "i", "s", " ", "n", "o", "t", " ", "a", " ", "f", "u", "n", "c", "t", "i", "o", "n">>

\* Lines 56-69 for one part: the tag pushed, or the exception thrown.
ParsePart(part) ==
    LET pieces  == Split(part, "=")
        tag     == Head(pieces)
        value   == Trim(Join(Tail(pieces), <<"=">>))
        tagName == ToLowerCase(Trim(tag))
        fn      == DescriptionFn(tagName)
        description ==
            CASE fn = "own"       -> Interpret(tagName, value)
              [] fn = "Object"    -> NonString("String", value)
              [] fn = "undefined" -> tagName \o <<":", " ">> \o value
              [] OTHER            -> <<>>
    IN  [threw |-> fn = "prototype",
         entry |-> [tag |-> tagName, value |-> value, description |-> description]]

\* record.split(";").map((p) => p.trim()).filter(Boolean)  (line 53)
PartsOf(rec) ==
    LET raw == Split(rec, ";")
    IN  FilterNonEmpty([i \in 1..Len(raw) |-> Trim(raw[i])])

RECURSIVE ParseLoop(_, _)
\* The for loop of lines 55-70 over the remaining parts, tags being those
\* pushed so far; an exception ends the call.
ParseLoop(parts, tags) ==
    IF parts = <<>> THEN [threw |-> FALSE, tags |-> tags, message |-> <<>>]
    ELSE LET one == ParsePart(Head(parts))
         IN  IF one.threw
             THEN [threw |-> TRUE, tags |-> <<>>, message |-> NotAFunction]
             ELSE ParseLoop(Tail(parts), Append(tags, one.entry))

parseDmarcRecord(rec) == ParseLoop(PartsOf(rec), <<>>)

----------------------------------------------------------------------------
(* The GET handler (lines 88-152).                                         *)

DMARC_PREFIX   == <<"_", "d", "m", "a", "r", "c", ".">>
HTTP_SCHEME    == <<"h", "t", "t", "p", ":", "/", "/">>
HTTPS_SCHEME   == <<"h", "t", "t", "p", "s", ":", "/", "/">>
V_DMARC1       == <<"v", "=", "d", "m", "a", "r", "c", "1">>
NO_RECORD      == <<"n", "o", " ", "r", "e", "c", "o", "r", "d">>
LOOKUP_FAILED  == <<"D", "M", "A", "R", "C", " ", "l", "o", "o", "k", "u", "p", " ",
                    "f", "a", "i", "l", "e", "d">>

Drop(s, n) == SubSeq(s, n + 1, Len(s))

\* .replace(/^_dmarc\./, "")
StripDmarcPrefix(s) ==
    IF StartsWith(s, DMARC_PREFIX) THEN Drop(s, Len(DMARC_PREFIX)) ELSE s

\* .replace(/^https?:\/\//, "")
StripScheme(s) ==
    IF StartsWith(s, HTTP_SCHEME) THEN Drop(s, Len(HTTP_SCHEME))
    ELSE IF StartsWith(s, HTTPS_SCHEME) THEN Drop(s, Len(HTTPS_SCHEME))
    ELSE s

\* Whether /\/.*$/ matches at position i: a "/" there, and "." (any
\* character but a line terminator) matching all the way to the end.
PathMatchesAt(s, i) ==
    /\ s[i] = "/"
    /\ \A j \in (i + 1)..Len(s) : s[j] \notin LineTerminator

\* .replace(/\/.*$/, ""): the leftmost match is removed.
StripPath(s) ==
    IF \E i \in 1..Len(s) : PathMatchesAt(s, i)
    THEN LET i == CHOOSE k \in 1..Len(s) :
                      /\ PathMatchesAt(s, k)
                      /\ \A j \in 1..(k - 1) : ~PathMatchesAt(s, j)
         IN  SubSeq(s, 1, i - 1)
    ELSE s

\* Line 100.
Clean(d) == StripPath(StripScheme(StripDmarcPrefix(d)))

\* Line 101.
QueryName(clean) == DMARC_PREFIX \o clean

\* getPolicyDescription (lines 75-86).
getPolicyDescription(policy) ==
    CASE policy = K_reject ->
           <<"This domain has a strict DMARC policy. Emails that fail DMARC authentication will be rejected by receiving mail servers. This is the strongest protection against email spoofing.">>
      [] policy = K_quarantine ->
           <<"This domain has a moderate DMARC policy. Emails that fail DMARC authentication may be treated as suspicious and placed in spam/junk folders.">>
      [] policy = K_none ->
           <<"This domain has a monitoring-only DMARC policy. No action is taken on failing emails, but reports may be collected. This provides no protection against spoofing.">>
      [] OTHER -> <<"Unknown policy type.">>

\* records.map((r) => (Array.isArray(r) ? r.join("") : r))  (line 112)
JoinChunks(records) == [i \in 1..Len(records) |-> Join(records[i], <<>>)]

\* The test of line 113 without toLowerCase: a case-sensitive match.
IsDmarcCaseSensitive(r) == StartsWith(r, V_DMARC1)

\* r.toLowerCase().startsWith("v=dmarc1")  (line 113)
IsDmarc(r) == StartsWith(ToLowerCase(r), V_DMARC1)

RECURSIVE Find(_)
\* Array.prototype.find with the test of line 113: the first match, or
\* undefined.
Find(texts) ==
    IF texts = <<>> THEN [found |-> FALSE, text |-> <<>>]
    ELSE IF IsDmarc(Head(texts)) THEN [found |-> TRUE, text |-> Head(texts)]
    ELSE Find(Tail(texts))

RECURSIVE FindP(_)
\* tags.find((t) => t.tag === "p")  (line 123)
FindP(tags) ==
    IF tags = <<>> THEN [found |-> FALSE, value |-> <<>>]
    ELSE IF Head(tags).tag = <<"p">> THEN [found |-> TRUE, value |-> Head(tags).value]
    ELSE FindP(Tail(tags))

\* policyTag?.value ?? "none": the default only when there is no p tag.
PolicyOfNullish(tags) ==
    LET policyTag == FindP(tags)
    IN  IF policyTag.found THEN policyTag.value ELSE K_none

\* policyTag?.value || "none"  (line 124): undefined and "" are both falsy.
PolicyOf(tags) ==
    LET policyTag == FindP(tags)
    IN  IF policyTag.found /\ policyTag.value # <<>> THEN policyTag.value ELSE K_none

\* A Response: its status and the keys of its JSON body with their values
\* (a key that is not in keys holds a filler).
NoResponse ==
    [status |-> 0, keys |-> {}, success |-> FALSE, error |-> <<>>, domain |-> <<>>,
     record |-> <<>>, tags |-> <<>>, policy |-> <<>>, policyDescription |-> <<>>,
     queryTime |-> 0]

\* Response.json({ success: false, error }, { status })
ErrorResponse(status, message) ==
    [NoResponse EXCEPT !.status = status, !.keys = {"success", "error"},
                       !.error = message]

\* Lines 126-134.
SuccessResponse(clean, dmarcRecord, tags, t) ==
    [status |-> 200,
     keys |-> {"success", "domain", "record", "tags", "policy", "policyDescription",
               "queryTime"},
     success |-> TRUE, error |-> <<>>, domain |-> clean, record |-> dmarcRecord,
     tags |-> tags, policy |-> PolicyOf(tags),
     policyDescription |-> getPolicyDescription(PolicyOf(tags)), queryTime |-> t]

\* Lines 135-150: the catch clause for a thrown Error with this message.
CatchResponse(clean, errorMessage) ==
    IF Includes(errorMessage, NO_RECORD)
    THEN ErrorResponse(404, <<"No DMARC record found for ">> \o clean
                            \o <<". The domain may not have DMARC configured.">>)
    ELSE ErrorResponse(500, errorMessage)

\* Lines 111-134 once resolveDns has returned records after t ms; an
\* exception of parseDmarcRecord is caught by line 135.
AfterResolve(clean, records, t) ==
    LET dmarcRecord == Find(JoinChunks(records))
        p           == parseDmarcRecord(dmarcRecord.text)
    IN  IF ~dmarcRecord.found
        THEN ErrorResponse(404, <<"No DMARC record found for ">> \o clean)
        ELSE IF p.threw THEN CatchResponse(clean, p.message)
        ELSE SuccessResponse(clean, dmarcRecord.text, p.tags, t)

----------------------------------------------------------------------------
(* Inputs.                                                                 *)

\* Pieces of parser inputs: the separators, white space, an upper-case and
\* a lower-case known tag, an unknown tag, the two lower-case property
\* names of Object.prototype, and values.
ParseFrags ==
    { <<";">>, <<"=">>, <<" ">>, <<"p">>, <<"V">>, <<"z">>, <<"s">>,
      <<"r", "i">>, <<"7", "2">>, K_constructor, K_proto }

ParseInputs == Concats(ParseFrags, MaxParseFrags)

\* ri values beyond MaxRi: around 23.5, 24 and 24.5 hours.
RiExtra == {84599, 84600, 86399, 86400, 88199, 88200}

RiInputs == (0..MaxRi) \cup RiExtra

\* "ri=" followed by the decimal form of n.
RiRecord(n) == <<"r", "i", "=">> \o NatToString(n)

\* Pieces of domain parameters.
DomainFrags ==
    { DMARC_PREFIX, HTTP_SCHEME, HTTPS_SCHEME, <<"/">>, <<"a">>, <<"\n">> }

Missing == [present |-> FALSE, value |-> <<>>]
Param(s) == [present |-> TRUE, value |-> s]

\* searchParams.get("domain"): null, or any string of the fragments.
DomainParams == {Missing} \cup {Param(s) : s \in Concats(DomainFrags, MaxDomainFrags)}

\* The domain parameters of the specification that varies the DNS answer.
FewDomainParams == {Missing, Param(<<>>), Param(<<"a">>), Param(HTTPS_SCHEME \o <<"a", "/">>)}

\* Texts of TXT records, resolver messages and the message of line 95.
TXT_SPF ==
    <<"v", "=", "s", "p", "f", "1">>
TXT_QUAR_1 ==
    <<"v", "=", "D", "M">>
TXT_QUAR_2 ==
    <<"A", "R", "C", "1", ";", " ", "p", "=", "q", "u", "a", "r", "a", "n", "t", "i", "n", "e">>
TXT_EMPTY_P ==
    <<"V", "=", "d", "m", "a", "r", "c", "1", ";", "p", "=", ";", "p", "=", "r", "e", "j", "e", "c", "t">>
TXT_TWO_P ==
    <<"v", "=", "D", "M", "A", "R", "C", "1", ";", "p", "=", "z", "z", ";", "P", "=", "n", "o", "n", "e">>
TXT_NO_P ==
    <<"v", "=", "D", "M", "A", "R", "C", "1", ";", " ", "p", "c", "t", "=", "5">>
TXT_PROTO ==
    <<"v", "=", "d", "m", "a", "r", "c", "1", ";", "_", "_", "p", "r", "o", "t", "o", "_", "_", "=", "x">>
TXT_CTOR ==
    <<"v", "=", "D", "M", "A", "R", "C", "1", ";", "c", "o", "n", "s", "t", "r", "u", "c", "t", "o", "r", "=", "x", ";", "p", "=", "r", "e", "j", "e", "c", "t">>
TXT_SPACE ==
    <<" ", "v", "=", "D", "M", "A", "R", "C", "1", ";", "p", "=", "r", "e", "j", "e", "c", "t">>
MSG_NO_RECORD ==
    <<"n", "o", " ", "r", "e", "c", "o", "r", "d", " ", "f", "o", "u", "n", "d", " ", "f", "o", "r", " ", "Q", "u", "e", "r", "y">>
MSG_TIMEOUT ==
    <<"d", "n", "s", " ", "t", "i", "m", "e", "o", "u", "t">>
DOMAIN_REQUIRED ==
    <<"D", "o", "m", "a", "i", "n", " ", "i", "s", " ", "r", "e", "q", "u", "i", "r", "e", "d">>

\* TXT records, each a sequence of chunks.
TxtRecords ==
    { <<TXT_SPF>>,
      <<TXT_QUAR_1, TXT_QUAR_2>>,
      <<TXT_EMPTY_P>>,
      <<TXT_TWO_P>>,
      <<TXT_NO_P>>,
      <<TXT_PROTO>>,
      <<TXT_CTOR>>,
      <<TXT_SPACE>> }

RECURSIVE SeqsUpTo(_, _)
\* The sequences of at most k members of S.
SeqsUpTo(S, k) ==
    IF k = 0 THEN {<<>>}
    ELSE LET prev == SeqsUpTo(S, k - 1)
         IN  prev \cup {Append(q, x) : q \in prev, x \in S}

\* What the resolver may throw: an Error with a message, or something that
\* is not an Error.
ResolverErrors ==
    { [isError |-> TRUE, message |-> MSG_NO_RECORD],
      [isError |-> TRUE, message |-> MSG_TIMEOUT],
      [isError |-> TRUE, message |-> <<>>],
      [isError |-> FALSE, message |-> <<>>] }

----------------------------------------------------------------------------
(* States in which a part of the program is not running.                   *)

NotParsed == [threw |-> FALSE, tags |-> <<>>, message |-> <<>>]

ParserUnused ==
    /\ record = <<>>
    /\ parsed = NotParsed
    /\ ppc = "unused"
    /\ riN = -1

NoOutcome == [kind |-> "pending", records |-> <<>>, isError |-> FALSE, message |-> <<>>]

HandlerUnused ==
    /\ pc = "unused"
    /\ domain = Missing
    /\ cleanDomain = <<>>
    /\ dmarcDomain = <<>>
    /\ dnsLog = <<>>
    /\ dnsOutcome = NoOutcome
    /\ queryTime = 0
    /\ response = NoResponse

Null == [some |-> FALSE, value |-> <<>>]
Some(v) == [some |-> TRUE, value |-> v]

IslandUnused ==
    /\ uiDomain = <<>>
    /\ isLoading = FALSE
    /\ result = Null
    /\ error = Null
    /\ initialLoadDone = FALSE
    /\ mounted = FALSE
    /\ locHash = <<>>
    /\ inflight = {}

----------------------------------------------------------------------------
(* parseDmarcRecord applied to one input.                                  *)

InitParse ==
    /\ unsafeProto \in BOOLEAN
    /\ record \in ParseInputs
    /\ parsed = NotParsed
    /\ ppc = "call"
    /\ riN = -1
    /\ HandlerUnused
    /\ IslandUnused

InitRi ==
    /\ unsafeProto \in BOOLEAN
    /\ riN \in RiInputs
    /\ record = RiRecord(riN)
    /\ parsed = NotParsed
    /\ ppc = "call"
    /\ HandlerUnused
    /\ IslandUnused

ParseCall ==
    /\ ppc = "call"
    /\ parsed' = parseDmarcRecord(record)
    /\ ppc' = "returned"
    /\ UNCHANGED <<rtVars, record, riN, reqVars, uiVars>>

SpecParse == InitParse /\ [][ParseCall]_vars

SpecRi == InitRi /\ [][ParseCall]_vars

----------------------------------------------------------------------------
(* One GET request.                                                        *)

Init ==
    /\ unsafeProto \in BOOLEAN
    /\ ParserUnused
    /\ pc = "idle"
    /\ domain = Missing
    /\ cleanDomain = <<>>
    /\ dmarcDomain = <<>>
    /\ dnsLog = <<>>
    /\ dnsOutcome = NoOutcome
    /\ queryTime = 0
    /\ response = NoResponse
    /\ IslandUnused

\* Lines 90-106, up to the await: the 400 response, or the DNS query.
GetStart(d) ==
    /\ pc = "idle"
    /\ domain' = d
    /\ IF ~d.present \/ d.value = <<>>
       THEN /\ response' = ErrorResponse(400, DOMAIN_REQUIRED)
            /\ pc' = "done"
            /\ UNCHANGED <<cleanDomain, dmarcDomain, dnsLog>>
       ELSE /\ cleanDomain' = Clean(d.value)
            /\ dmarcDomain' = QueryName(cleanDomain')
            /\ dnsLog' = Append(dnsLog, dmarcDomain')
            /\ pc' = "awaitDns"
            /\ UNCHANGED response
    /\ UNCHANGED <<rtVars, parseVars, dnsOutcome, queryTime, uiVars>>

\* Lines 108-134: resolveDns returned these records after t ms.
ResolveReturns(records, t) ==
    /\ pc = "awaitDns"
    /\ dnsOutcome' = [NoOutcome EXCEPT !.kind = "records", !.records = records]
    /\ queryTime' = t
    /\ response' = AfterResolve(cleanDomain, records, t)
    /\ pc' = "done"
    /\ UNCHANGED <<rtVars, parseVars, domain, cleanDomain, dmarcDomain, dnsLog, uiVars>>

\* A handler that queries again when the resolver fails.
ResolveThrowsRetry(err) ==
    /\ pc = "awaitDns"
    /\ dnsOutcome' = [NoOutcome EXCEPT !.kind = "error", !.isError = err.isError,
                                       !.message = err.message]
    /\ dnsLog' = Append(dnsLog, dmarcDomain)
    /\ UNCHANGED <<rtVars, parseVars, pc, domain, cleanDomain, dmarcDomain, queryTime,
                   response, uiVars>>

\* Lines 135-150: resolveDns threw err.
ResolveThrows(err) ==
    /\ pc = "awaitDns"
    /\ dnsOutcome' = [NoOutcome EXCEPT !.kind = "error", !.isError = err.isError,
                                       !.message = err.message]
    /\ response' = CatchResponse(cleanDomain,
                                 IF err.isError THEN err.message ELSE LOOKUP_FAILED)
    /\ pc' = "done"
    /\ UNCHANGED <<rtVars, parseVars, domain, cleanDomain, dmarcDomain, dnsLog,
                   queryTime, uiVars>>

\* Every domain parameter, against answers of at most one record.
Next ==
    \/ \E d \in DomainParams : GetStart(d)
    \/ \E records \in SeqsUpTo(TxtRecords, 1), t \in 0..MaxQueryTime :
          ResolveReturns(records, t)
    \/ \E err \in ResolverErrors : ResolveThrows(err)

Spec == Init /\ [][Next]_vars

\* A few domain parameters, against every answer of up to MaxRecords records.
NextLookup ==
    \/ \E d \in FewDomainParams : GetStart(d)
    \/ \E records \in SeqsUpTo(TxtRecords, MaxRecords), t \in 0..MaxQueryTime :
          ResolveReturns(records, t)
    \/ \E err \in ResolverErrors : ResolveThrows(err)

SpecLookup == Init /\ [][NextLookup]_vars

----------------------------------------------------------------------------
(* The DmarcValidator island (islands/DmarcValidator.tsx).                 *)

\* Whether the rest of a hash, after the captured group, matches \/?\s*$.
HashTail(r) ==
    LET r2 == IF r # <<>> /\ Head(r) = "/" THEN Tail(r) ELSE r
    IN  \A i \in 1..Len(r2) : r2[i] \in WhiteSpace

\* Whether the group (.+?) of /^#(.+?)\/?\s*$/ can be the k characters
\* after the "#".
HashGroupIs(body, k) ==
    /\ \A i \in 1..k : body[i] \notin LineTerminator
    /\ HashTail(Drop(body, k))

\* parseHash (lines 19-23): the shortest group that lets the pattern
\* match, or null.
parseHash(hash) ==
    IF hash # <<>> /\ Head(hash) = "#"
       /\ \E k \in 1..(Len(hash) - 1) : HashGroupIs(Tail(hash), k)
    THEN LET body == Tail(hash)
             k == CHOOSE n \in 1..Len(body) :
                      /\ HashGroupIs(body, n)
                      /\ \A m \in 1..(n - 1) : ~HashGroupIs(body, m)
         IN  Some(SubSeq(body, 1, k))
    ELSE Null

RECURSIVE FragmentEncode(_)
\* The URL parser's percent-encoding of a fragment, for the characters of
\* the inputs: a space becomes %20.
FragmentEncode(s) ==
    IF s = <<>> THEN <<>>
    ELSE (IF Head(s) = " " THEN <<"%", "2", "0">> ELSE <<Head(s)>>)
         \o FragmentEncode(Tail(s))

\* window.location.hash after updateHash(d) (lines 25-31).
HashAfterUpdate(d) == IF d # <<>> THEN <<"#">> \o FragmentEncode(d) ELSE <<>>

\* The effect of lines 97-101, run after a render in which domain changed.
DomainEffect(newDomain, loadDone, hash) ==
    IF loadDone THEN HashAfterUpdate(Trim(newDomain)) ELSE hash

\* Texts the user types and hashes the page is opened with.
UiTexts == { <<>>, <<" ">>, <<"a">>, <<" ", "a", " ", "b">> }
UiHashes == { <<>>, <<"#">>, <<"#", "a">>, <<"#", "a", "/">>, <<"#", "a", "/", "/">> }

\* The JSON bodies the API answers with: a result, or an error with or
\* without a message.
ApiBodies ==
    { [success |-> TRUE, error |-> <<>>],
      [success |-> FALSE, error |-> <<"No DMARC record found for <domain>">>],
      [success |-> FALSE, error |-> <<>>] }

Slots == 1..MaxInFlight
FreeSlot == CHOOSE s \in Slots : \A c \in inflight : c.slot # s

\* handleLookup (lines 40-68) up to its first await, or to its early
\* return, for the domain value dom.
HandleLookupStart(dom) ==
    LET domainValue == Trim(dom)
    IN  /\ result' = Null
        /\ IF domainValue = <<>>
           THEN /\ error' = Some(<<"Please enter a domain name">>)
                /\ UNCHANGED <<isLoading, inflight>>
           ELSE /\ Cardinality(inflight) < MaxInFlight
                /\ error' = Null
                /\ isLoading' = TRUE
                /\ inflight' = inflight \cup
                       {[slot |-> FreeSlot, sent |-> domainValue, at |-> "fetch"]}

\* The mount effect (lines 77-95) and the first run of the effect of lines
\* 97-101, the page having been opened with this hash.
Mount(hash) ==
    /\ ~mounted
    /\ mounted' = TRUE
    /\ initialLoadDone' = TRUE
    /\ LET parsedHash == parseHash(hash)
       IN  IF parsedHash.some
           THEN /\ uiDomain' = parsedHash.value
                /\ HandleLookupStart(parsedHash.value)
           ELSE UNCHANGED <<uiDomain, isLoading, result, error, inflight>>
    /\ locHash' = DomainEffect(uiDomain', TRUE, hash)
    /\ UNCHANGED <<rtVars, parseVars, reqVars>>

\* A hashchange event (handleHashChange, lines 78-89) after the mount.
HashChange(hash) ==
    /\ mounted
    /\ hash # locHash
    /\ LET parsedHash == parseHash(hash)
       IN  IF parsedHash.some
           THEN /\ uiDomain' = parsedHash.value
                /\ IF ~initialLoadDone
                   THEN /\ initialLoadDone' = TRUE
                        /\ HandleLookupStart(parsedHash.value)
                   ELSE UNCHANGED <<initialLoadDone, isLoading, result, error, inflight>>
           ELSE /\ initialLoadDone' = TRUE
                /\ UNCHANGED <<uiDomain, isLoading, result, error, inflight>>
    /\ locHash' = IF uiDomain' # uiDomain
                  THEN DomainEffect(uiDomain', initialLoadDone', hash)
                  ELSE hash
    /\ UNCHANGED <<rtVars, parseVars, reqVars, mounted>>

\* onInput (lines 129-131).
OnInput(text) ==
    /\ mounted
    /\ text # uiDomain
    /\ uiDomain' = text
    /\ locHash' = DomainEffect(text, initialLoadDone, locHash)
    /\ UNCHANGED <<rtVars, parseVars, reqVars, isLoading, result, error,
                   initialLoadDone, mounted, inflight>>

\* A click on the Lookup button (lines 142-148), which is disabled while
\* the domain is blank or a lookup is loading.
ClickLookup ==
    /\ mounted
    /\ Trim(uiDomain) # <<>>
    /\ ~isLoading
    /\ HandleLookupStart(uiDomain)
    /\ UNCHANGED <<rtVars, parseVars, reqVars, uiDomain, initialLoadDone, mounted, locHash>>

\* The Enter key in the input (lines 132-134).
EnterKey ==
    /\ mounted
    /\ HandleLookupStart(uiDomain)
    /\ UNCHANGED <<rtVars, parseVars, reqVars, uiDomain, initialLoadDone, mounted, locHash>>

\* handleClear (lines 70-75), and the effect of lines 97-101 when the
\* domain changed.
HandleClear ==
    /\ mounted
    /\ uiDomain' = <<>>
    /\ result' = Null
    /\ error' = Null
    /\ locHash' = <<>>
    /\ UNCHANGED <<rtVars, parseVars, reqVars, isLoading, initialLoadDone, mounted, inflight>>

\* fetch resolved (line 54): the call goes on to await response.json().
FetchResolves(c) ==
    /\ c \in inflight
    /\ c.at = "fetch"
    /\ inflight' = (inflight \ {c}) \cup {[c EXCEPT !.at = "json"]}
    /\ UNCHANGED <<rtVars, parseVars, reqVars, uiDomain, isLoading, result, error,
                   initialLoadDone, mounted, locHash>>

\* fetch or response.json() rejected: the catch of line 63, the finally of
\* line 65.
AwaitRejects(c) ==
    /\ c \in inflight
    /\ error' = Some(<<"Failed to perform DMARC lookup">>)
    /\ isLoading' = FALSE
    /\ inflight' = inflight \ {c}
    /\ UNCHANGED <<rtVars, parseVars, reqVars, uiDomain, result, initialLoadDone,
                   mounted, locHash>>

\* response.json() resolved with data (lines 55-62), then the finally.
JsonResolves(c, data) ==
    /\ c \in inflight
    /\ c.at = "json"
    /\ IF ~data.success
       THEN /\ error' = Some(IF data.error # <<>> THEN data.error
                             ELSE <<"DMARC lookup failed">>)
            /\ UNCHANGED result
       ELSE /\ result' = Some(c.sent)
            /\ UNCHANGED error
    /\ isLoading' = FALSE
    /\ inflight' = inflight \ {c}
    /\ UNCHANGED <<rtVars, parseVars, reqVars, uiDomain, initialLoadDone, mounted, locHash>>

InitUI ==
    /\ unsafeProto \in BOOLEAN
    /\ ParserUnused
    /\ HandlerUnused
    /\ IslandUnused

NextUI ==
    \/ \E hash \in UiHashes : Mount(hash)
    \/ \E hash \in UiHashes : HashChange(hash)
    \/ \E text \in UiTexts : OnInput(text)
    \/ ClickLookup
    \/ EnterKey
    \/ HandleClear
    \/ \E c \in inflight : FetchResolves(c)
    \/ \E c \in inflight : AwaitRejects(c)
    \/ \E c \in inflight, data \in ApiBodies : JsonResolves(c, data)

SpecUI == InitUI /\ [][NextUI]_vars

----------------------------------------------------------------------------
(* Properties.  The vocabulary below states them independently of the      *)
(* operators the program is modelled with.                                 *)

\* The positions of character ch in s.
Positions(s, ch) == {i \in 1..Len(s) : s[i] = ch}

\* The k-th smallest member of a set of numbers.
Nth(S, k) == CHOOSE i \in S : Cardinality({j \in S : j < i}) = k - 1

\* The k-th of the segments r falls into when cut at every ";".
Segment(r, k) ==
    LET semis == Positions(r, ";")
        from  == IF k = 1 THEN 1 ELSE Nth(semis, k - 1) + 1
        to    == IF k = Cardinality(semis) + 1 THEN Len(r) ELSE Nth(semis, k) - 1
    IN  SubSeq(r, from, to)

\* The numbers of the segments of r that are not blank.
KeptSegments(r) ==
    {k \in 1..(Cardinality(Positions(r, ";")) + 1) : Trim(Segment(r, k)) # <<>>}

\* The tag name and value the specification assigns to a segment.
SegmentName(seg) ==
    LET eqs == Positions(seg, "=")
    IN  ToLowerCase(Trim(IF eqs = {} THEN seg ELSE SubSeq(seg, 1, Nth(eqs, 1) - 1)))

SegmentValue(seg) ==
    LET eqs == Positions(seg, "=")
    IN  IF eqs = {} THEN <<>> ELSE Trim(SubSeq(seg, Nth(eqs, 1) + 1, Len(seg)))

C5_UnknownTagFallback ==
    ppc = "returned" /\ riN = -1 =>
        /\ ~parsed.threw
        /\ \A i \in 1..Len(parsed.tags) :
              parsed.tags[i].tag \notin KnownTags =>
                  parsed.tags[i].description =
                      parsed.tags[i].tag \o <<":", " ">> \o parsed.tags[i].value

\* C8: for an ri tag whose value is the decimal form of a non-negative
\* integer n, the description is "Report interval: n seconds (h hours)"
\* with h = floor((n + 1800) / 3600): 0..1799 give 0, 1800 gives 1 and
\* 86400 gives 24.
C8_RiHours ==
    ppc = "returned" /\ riN >= 0 =>
        /\ ~parsed.threw
        /\ Len(parsed.tags) = 1
        /\ parsed.tags[1].tag = <<"r", "i">>
        /\ parsed.tags[1].description =
              <<"Report interval: ">> \o NatToString(riN) \o <<" seconds (">>
              \o NatToString((riN + 1800) \div 3600) \o <<" hours)">>
        /\ riN \in 0..1799 =>
              parsed.tags[1].description[Len(parsed.tags[1].description) - 1] = "0"
        /\ riN = 86400 =>
              parsed.tags[1].description =
                  <<"Report interval: ", "8", "6", "4", "0", "0", " seconds (",
                    "2", "4", " hours)">>

\* C8, reached: the half hour 1800 has been described as 1 hour.
C8_HalfHourRoundsUp ==
    /\ ppc = "returned"
    /\ riN = 1800
    /\ parsed.tags[1].description =
          <<"Report interval: ", "1", "8", "0", "0", " seconds (", "1", " hours)">>

\* The tags named p, by position.
PTags(tags) == {i \in 1..Len(tags) : tags[i].tag = <<"p">>}

\* The Policy Summary sentence of a policy, as the specification lists them.
SummaryOf(policy) ==
    IF policy = K_none
    THEN <<"This domain has a monitoring-only DMARC policy. No action is taken on failing emails, but reports may be collected. This provides no protection against spoofing.">>
    ELSE IF policy \notin {K_quarantine, K_reject} THEN <<"Unknown policy type.">>
    ELSE getPolicyDescription(policy)

\* C2 as stated: on every success response, policy is the value of the
\* first p tag whenever the tags contain a p tag, "none" when they contain
\* none, and policyDescription is the summary sentence of that policy.
C2_PolicyIsPValue ==
    pc = "done" /\ response.status = 200 =>
        /\ PTags(response.tags) # {} =>
              response.policy = response.tags[Nth(PTags(response.tags), 1)].value
        /\ PTags(response.tags) = {} => response.policy = K_none
        /\ response.policyDescription = SummaryOf(response.policy)

\* C2, amended: on every success response, policy is the value of the first
\* p tag when that value is not empty, and "none" when the tags contain no
\* p tag or the first p tag's value is empty; policyDescription is the
\* summary sentence of that policy.
C2_PolicyOrNone ==
    pc = "done" /\ response.status = 200 =>
        /\ response.policy =
              IF PTags(response.tags) # {}
                 /\ response.tags[Nth(PTags(response.tags), 1)].value # <<>>
              THEN response.tags[Nth(PTags(response.tags), 1)].value
              ELSE K_none
        /\ response.policyDescription = SummaryOf(response.policy)

\* C2, reached: a success response with two p tags, the first of them
\* empty, whose policy is "none".
C2_EmptyPolicyIsNone ==
    /\ pc = "done"
    /\ response.status = 200
    /\ Cardinality(PTags(response.tags)) = 2
    /\ response.tags[Nth(PTags(response.tags), 1)].value = <<>>
    /\ response.policy = K_none

\* Whether a text begins with "v=dmarc1", letter case ignored.
BeginsWithDmarc1(text) ==
    /\ Len(text) >= 8
    /\ \A k \in 1..8 : LowerChar(text[k]) = V_DMARC1[k]

RECURSIVE Flatten(_)
\* The chunks of one TXT record, concatenated.
Flatten(chunks) == IF chunks = <<>> THEN <<>> ELSE Head(chunks) \o Flatten(Tail(chunks))

\* The positions of the qualifying records of an answer.
Qualifying(records) == {i \in 1..Len(records) : BeginsWithDmarc1(Flatten(records[i]))}

\* C3: when the resolver returns TXT records, the record of a success
\* response is the joined text, unmodified, of the first record in answer
\* order whose joined text begins with "v=dmarc1" (case ignored), and its
\* tags are exactly parseDmarcRecord of that text; when no record
\* qualifies, an empty answer included, the response is the 404 failure.
C3_FirstQualifyingRecord ==
    pc = "done" /\ dnsOutcome.kind = "records" =>
        LET q == Qualifying(dnsOutcome.records)
        IN  /\ q = {} =>
                  /\ response.status = 404
                  /\ response.keys = {"success", "error"}
                  /\ ~response.success
                  /\ response.error = <<"No DMARC record found for ">> \o cleanDomain
            /\ response.status = 200 =>
                  /\ q # {}
                  /\ response.record = Flatten(dnsOutcome.records[Nth(q, 1)])
                  /\ response.tags = parseDmarcRecord(response.record).tags
                  /\ ~parseDmarcRecord(response.record).threw

\* C3, reached: the answer [v=spf1, a chunked v=DMARC1 record] gave a
\* success response carrying the second record's joined text and tags.
C3_SecondRecordSelected ==
    /\ pc = "done"
    /\ dnsOutcome.records = << <<TXT_SPF>>, <<TXT_QUAR_1, TXT_QUAR_2>> >>
    /\ response.status = 200
    /\ response.record = TXT_QUAR_1 \o TXT_QUAR_2
    /\ Len(response.tags) = 2
    /\ response.policy = K_quarantine

\* The keys of a success body.
ResultKeys == {"domain", "record", "tags", "policy", "policyDescription", "queryTime"}

\* Whether the resolver failed reporting no record for the name.
ReportedNoRecord ==
    /\ dnsOutcome.kind = "error"
    /\ dnsOutcome.isError
    /\ Includes(dnsOutcome.message, NO_RECORD)

StatedClean(d) ==
    LET a == IF Len(d) >= 7 /\ SubSeq(d, 1, 7) = DMARC_PREFIX
             THEN SubSeq(d, 8, Len(d)) ELSE d
        b == IF Len(a) >= 7 /\ SubSeq(a, 1, 7) = HTTP_SCHEME THEN SubSeq(a, 8, Len(a))
             ELSE IF Len(a) >= 8 /\ SubSeq(a, 1, 8) = HTTPS_SCHEME THEN SubSeq(a, 9, Len(a))
             ELSE a
        slashes == Positions(b, "/")
    IN  IF slashes = {} THEN b ELSE SubSeq(b, 1, Nth(slashes, 1) - 1)

\* The domain parameter is present and not empty, and the handler has read it.
DomainGiven == pc # "idle" /\ domain.present /\ domain.value # <<>>

\* C6: for every non-empty domain parameter d, cleanDomain is d with a
\* leading "_dmarc." removed, then a leading scheme, then everything from
\* the first "/" onward; the TXT query is issued for exactly "_dmarc." +
\* cleanDomain, and the domain of a success response and of a 404 message
\* is that cleanDomain.
C6_CleanDomain ==
    DomainGiven =>
        /\ cleanDomain = StatedClean(domain.value)
        /\ dnsLog = <<DMARC_PREFIX \o cleanDomain>>
        /\ response.status = 200 => response.domain = cleanDomain
        /\ response.status = 404 => Includes(response.error, cleanDomain)

\* C9: normalization is idempotent: normalizing cleanDomain again returns
\* it unchanged; cleanDomain never begins with "_dmarc.", "http://" or
\* "https://" and never contains "/", so the query name never has the form
\* "_dmarc._dmarc.<x>".
C9_NormalizeIdempotent ==
    DomainGiven =>
        /\ Clean(cleanDomain) = cleanDomain
        /\ ~StartsWith(cleanDomain, DMARC_PREFIX)
        /\ ~StartsWith(cleanDomain, HTTP_SCHEME)
        /\ ~StartsWith(cleanDomain, HTTPS_SCHEME)
        /\ Positions(cleanDomain, "/") = {}
        /\ ~StartsWith(dmarcDomain, DMARC_PREFIX \o DMARC_PREFIX)

\* C7: the resolver is invoked at most once per request, with no retry
\* after a failure or a non-qualifying answer, and never when the domain
\* parameter is missing or empty: the 400 response precedes any query.
C7_SingleQuery ==
    /\ Len(dnsLog) <= 1
    /\ pc # "idle" /\ (~domain.present \/ domain.value = <<>>) => dnsLog = <<>>
    /\ response.status = 400 => dnsLog = <<>>
    /\ dnsOutcome.kind # "pending" => pc = "done" /\ Len(dnsLog) = 1

\* C7, reached: the resolver failed, the request ended with 500, and one
\* query had been made.
C7_FailedOnceNoRetry ==
    /\ pc = "done"
    /\ dnsOutcome.kind = "error"
    /\ response.status = 500
    /\ Len(dnsLog) = 1

\* C10: in the island, under any interleaving of user events and fetch
\* completions, the error signal and the result signal are never both
\* non-null.
C10_ErrorXorResult == ~(error.some /\ result.some)

============================================================================
